---- MODULE Spec2Model ----
(***************************************************************************)
(* Model of sync.py: the bidirectional frequency synchronisation loop      *)
(* between wfview ("wf", the primary endpoint) and a rigctl receiver       *)
(* ("sdr", the secondary endpoint).                                        *)
(*                                                                         *)
(* Texts are sequences of one-character strings.  An optional value        *)
(* (Python's None or a value) is the empty sequence or a one-element       *)
(* sequence.                                                               *)
(***************************************************************************)
EXTENDS Integers, Sequences, FiniteSets, TLC

None == <<>>
Some(v) == <<v>>
IsNone(o) == o = <<>>
Val(o) == o[1]

Sides == {"wf", "sdr"}
Other(side) == IF side = "wf" THEN "sdr" ELSE "wf"

Abs(x) == IF x < 0 THEN -x ELSE x

(***************************************************************************)
(* Text helpers: str.strip, str.replace, str.split, str.isdigit, int(),    *)
(* float(), round().                                                       *)
(***************************************************************************)
DigitChars == {"0", "1", "2", "3", "4", "5", "6", "7", "8", "9"}

IsDigit(ch) == ch \in DigitChars

IsSpace(ch) == ch \in {" ", "\n", "\t", "\r"}

DigitVal(ch) ==
    CASE ch = "0" -> 0 [] ch = "1" -> 1 [] ch = "2" -> 2 [] ch = "3" -> 3
      [] ch = "4" -> 4 [] ch = "5" -> 5 [] ch = "6" -> 6 [] ch = "7" -> 7
      [] ch = "8" -> 8 [] ch = "9" -> 9

DigitChar(d) ==
    CASE d = 0 -> "0" [] d = 1 -> "1" [] d = 2 -> "2" [] d = 3 -> "3"
      [] d = 4 -> "4" [] d = 5 -> "5" [] d = 6 -> "6" [] d = 7 -> "7"
      [] d = 8 -> "8" [] d = 9 -> "9"

RECURSIVE LStrip(_)
LStrip(s) == IF s # <<>> /\ IsSpace(Head(s)) THEN LStrip(Tail(s)) ELSE s

RECURSIVE RStrip(_)
RStrip(s) ==
    IF s # <<>> /\ IsSpace(s[Len(s)]) THEN RStrip(SubSeq(s, 1, Len(s) - 1)) ELSE s

\* str.strip()
Strip(s) == RStrip(LStrip(s))

\* str.replace(":", " ")
ReplaceColon(s) == [i \in 1..Len(s) |-> IF s[i] = ":" THEN " " ELSE s[i]]

\* str.split(): the maximal runs of non-whitespace characters, in order
RECURSIVE SplitFrom(_, _, _)
SplitFrom(s, i, cur) ==
    IF i > Len(s)
    THEN IF cur = <<>> THEN <<>> ELSE <<cur>>
    ELSE IF IsSpace(s[i])
         THEN IF cur = <<>>
              THEN SplitFrom(s, i + 1, <<>>)
              ELSE <<cur>> \o SplitFrom(s, i + 1, <<>>)
         ELSE SplitFrom(s, i + 1, Append(cur, s[i]))

Split(s) == SplitFrom(s, 1, <<>>)

\* "".join(ch for ch in token if (ch.isdigit() or ch in ".-"))
KeepNumeric(token) == SelectSeq(token, LAMBDA ch : IsDigit(ch) \/ ch \in {".", "-"})

AllDigits(s) == \A i \in 1..Len(s) : IsDigit(s[i])

\* the value of a run of decimal digits
RECURSIVE DigitsVal(_)
DigitsVal(s) ==
    IF s = <<>> THEN 0 ELSE 10 * DigitsVal(SubSeq(s, 1, Len(s) - 1)) + DigitVal(s[Len(s)])

Unsigned(tok) == IF tok # <<>> /\ Head(tok) = "-" THEN Tail(tok) ELSE tok

Sign(tok) == IF tok # <<>> /\ Head(tok) = "-" THEN -1 ELSE 1

\* int(tok) succeeds: an optional sign and at least one digit
IntParses(tok) == Unsigned(tok) # <<>> /\ AllDigits(Unsigned(tok))

IntOf(tok) == Sign(tok) * DigitsVal(Unsigned(tok))

DotAt(s) == CHOOSE i \in 1..Len(s) : s[i] = "."

\* float(tok) succeeds (tok holds only digits, '.' and '-'): an optional sign,
\* digits around at most one '.', at least one digit
FloatParses(tok) ==
    LET u == Unsigned(tok)
    IN  /\ \E i \in 1..Len(u) : IsDigit(u[i])
        /\ \A i \in 1..Len(u) : u[i] # "-"
        /\ Cardinality({i \in 1..Len(u) : u[i] = "."}) <= 1

\* line 102 without round(): int(float(tok)) cuts the fraction off
RoundOf_Truncated(tok) ==
    LET u == Unsigned(tok)
        hasDot == \E i \in 1..Len(u) : u[i] = "."
        ip == IF hasDot THEN SubSeq(u, 1, DotAt(u) - 1) ELSE u
    IN  Sign(tok) * DigitsVal(ip)

\* int(round(float(tok))): round half to even
RoundOf(tok) ==
    LET u == Unsigned(tok)
        hasDot == \E i \in 1..Len(u) : u[i] = "."
        ip == IF hasDot THEN SubSeq(u, 1, DotAt(u) - 1) ELSE u
        fp == IF hasDot THEN SubSeq(u, DotAt(u) + 1, Len(u)) ELSE <<>>
        n == DigitsVal(ip)
        restZero == \A i \in 2..Len(fp) : fp[i] = "0"
        up == /\ fp # <<>>
              /\ \/ DigitVal(fp[1]) > 5
                 \/ DigitVal(fp[1]) = 5 /\ ~restZero
                 \/ DigitVal(fp[1]) = 5 /\ restZero /\ n % 2 = 1
    IN  Sign(tok) * (IF up THEN n + 1 ELSE n)

\* lines 92-105: the first token that parses, or None
RECURSIVE FirstParsed(_)
FirstParsed(tokens) ==
    IF tokens = <<>> THEN None
    ELSE LET tok == KeepNumeric(Head(tokens))
         IN  IF tok = <<>> THEN FirstParsed(Tail(tokens))
             ELSE IF IntParses(tok) THEN Some(IntOf(tok))
             ELSE IF FloatParses(tok) THEN Some(RoundOf(tok))
             ELSE FirstParsed(Tail(tokens))

parse_freq_from_text(text) == FirstParsed(Split(ReplaceColon(Strip(text))))

\* str(int): the decimal digits, with a sign for a negative number
RECURSIVE NatText(_)
NatText(n) ==
    IF n < 10 THEN <<DigitChar(n)>> ELSE Append(NatText(n \div 10), DigitChar(n % 10))

IntText(n) == IF n < 0 THEN <<"-">> \o NatText(-n) ELSE NatText(n)

\* f"F {freq}"
SetLine(freq) == <<"F", " ">> \o IntText(freq)

\* the request line of rigctl_get_freq
GetLine == <<"f">>

\* "RPRT 0" in reply
ContainsRprt0(reply) ==
    \E i \in 1..Len(reply) :
        /\ i + 5 <= Len(reply)
        /\ SubSeq(reply, i, i + 5) = <<"R", "P", "R", "T", " ", "0">>

\* ("RPRT 0" in reply) or reply.strip().isdigit()
SetAcknowledged(reply) ==
    ContainsRprt0(reply) \/ (Strip(reply) # <<>> /\ AllDigits(Strip(reply)))

(***************************************************************************)
(* Configuration (lines 44-53) and the endpoints' side of the protocol.    *)
(***************************************************************************)
CHANGE_THRESHOLD_HZ == 50

\* the frequencies the two rigs can be tuned to
Freqs == {0, 49, 50}

\* a rig's reply to "f" when it answers properly: the frequency and a newline
FreqReply(f) == IntText(f) \o <<"\n">>

\* what a rig may answer to "f" instead: an error report, or nothing (end of stream)
BadReplies == {<<"R", "P", "R", "T", " ", "-", "1", "\n">>, <<>>}

RprtOk == <<"R", "P", "R", "T", " ", "0", "\n">>

RprtErr == <<"R", "P", "R", "T", " ", "-", "1", "\n">>

(***************************************************************************)
(* State.                                                                  *)
(***************************************************************************)
VARIABLES
    pc,                \* position of main() in its loop
    stop,              \* the global flag set by sigint_handler
    wf, sdr,           \* main's socket variables: None or Some(descriptor)
    open,              \* the descriptors of the sockets that are open
    last,              \* Tracker.last
    last_change_time,  \* Tracker.last_change_time
    now,               \* the latest reading of the clock
    wf_freq, sdr_freq, \* this iteration's readings
    tx,                \* the lines handed to send_line in this iteration
    acked,             \* this iteration's result of rigctl_set_freq, if it returned
    healthy,           \* both endpoints accept connections and answer properly
    operating,         \* somebody is at the endpoints' dials
    rig,               \* the frequency each endpoint is tuned to
    last0,             \* Tracker.last when this iteration began
    time0,             \* Tracker.last_change_time when this iteration began
    prevBoth,          \* the previous polling iteration obtained both readings
    text,              \* the argument of a call of parse_freq_from_text on its own
    parsed,            \* None before that call, Some(its result) after it
    settled            \* the set-frequency lines sent since the start of the first
                       \* iteration from which on nobody has been at the dials and
                       \* the endpoints have been healthy (up to CountCap), or -1

vars == <<pc, stop, wf, sdr, open, last, last_change_time, now, wf_freq, sdr_freq,
          tx, acked, healthy, operating, rig, last0, time0, prevBoth, text, parsed,
          settled>>

trackerVars == <<last, last_change_time, now>>
sockVars == <<wf, sdr, open>>
tickVars == <<wf_freq, sdr_freq, tx, acked>>
envVars == <<healthy, operating, rig>>
ghostVars == <<last0, time0, prevBoth>>
parseVars == <<text, parsed>>

\* main() before its loop: lines 155-164
InitLoop ==
    /\ pc = "top"
    /\ stop = FALSE
    /\ wf = None
    /\ sdr = None
    /\ open = {}
    /\ last = [s \in Sides |-> None]
    /\ last_change_time = [s \in Sides |-> 0]
    /\ now = 1
    /\ wf_freq = None
    /\ sdr_freq = None
    /\ tx = <<>>
    /\ acked = None
    /\ healthy \in BOOLEAN
    /\ operating \in BOOLEAN
    /\ rig \in [Sides -> Freqs]
    /\ last0 = [s \in Sides |-> None]
    /\ time0 = [s \in Sides |-> 0]
    /\ prevBoth = FALSE
    /\ settled = IF healthy /\ ~operating THEN 0 ELSE -1

Init ==
    /\ InitLoop
    /\ text = <<>>
    /\ parsed = None

(***************************************************************************)
(* Sockets. A socket is known by its descriptor; connect() takes the      *)
(* lowest free one, close() frees it.                                      *)
(***************************************************************************)
NewFd(fds) ==
    CHOOSE f \in 1..(Cardinality(fds) + 1) :
        f \notin fds /\ \A g \in 1..(f - 1) : g \in fds

\* "for so in (wf, sdr): if so: so.close()": the sockets left open
CloseBoth(fds, h1, h2) ==
    fds \ ({Val(h) : h \in {h \in {h1, h2} : ~IsNone(h)}})

\* the socket behind a handle is open
IsOpen(h) == ~IsNone(h) /\ Val(h) \in open

\* main's socket variable of a side
Handle(side) == IF side = "wf" THEN wf ELSE sdr

(***************************************************************************)
(* The clock.  The code only compares timestamps with each other and with  *)
(* 0.0, so they are kept up to an order-preserving renumbering: a reading  *)
(* within an iteration is the latest reading or a later one, every sleep   *)
(* moves the clock forward, and after a sleep the timestamps in use are    *)
(* renumbered 1, 2, 3 in their order (0.0 stays 0).                        *)
(***************************************************************************)
ClockReadings == {now, now + 1}

Rank(x, S) == IF x = 0 THEN 0 ELSE Cardinality({y \in S : y # 0 /\ y <= x})

(***************************************************************************)
(* Tracker (lines 127-145).                                                *)
(***************************************************************************)
\* line 135 without "old is None": a first sample is not a change
Changed_NoFirst(old, new_val) ==
    ~IsNone(old) /\ Abs(new_val - Val(old)) >= CHANGE_THRESHOLD_HZ

\* line 135 with > for >=
Changed_Strict(old, new_val) ==
    IsNone(old) \/ Abs(new_val - Val(old)) > CHANGE_THRESHOLD_HZ

\* line 135: the new value counts as a change
Changed(old, new_val) ==
    IsNone(old) \/ Abs(new_val - Val(old)) >= CHANGE_THRESHOLD_HZ

\* line 136 executed on every update
UpdatedTime_Always(times, side, old, new_val, t) == [times EXCEPT ![side] = t]

\* line 136 executed only when a value that was there has moved
UpdatedTime_OnlyOnMove(times, side, old, new_val, t) ==
    IF ~IsNone(old) /\ Changed(old, new_val) THEN [times EXCEPT ![side] = t] ELSE times

\* lines 135-136: the side's last-change time after update(side, new_val) at time t
UpdatedTime(times, side, old, new_val, t) ==
    IF Changed(old, new_val) THEN [times EXCEPT ![side] = t] ELSE times

\* line 138 storing the value in the other side's slot
UpdatedLast_OtherSide(lasts, side, new_val) == [lasts EXCEPT ![Other(side)] = Some(new_val)]

\* line 138
UpdatedLast(lasts, side, new_val) == [lasts EXCEPT ![side] = Some(new_val)]

\* line 145 with the comparison turned round
last_changed_side_Flipped(times) ==
    IF times["wf"] = 0 /\ times["sdr"] = 0 THEN "none"
    ELSE IF times["wf"] <= times["sdr"] THEN "wf" ELSE "sdr"

\* lines 140-145; "none" stands for None
last_changed_side(times) ==
    IF times["wf"] = 0 /\ times["sdr"] = 0 THEN "none"
    ELSE IF times["wf"] >= times["sdr"] THEN "wf" ELSE "sdr"

(***************************************************************************)
(* The decision of lines 193-208: the set-frequency call to make, if any.  *)
(***************************************************************************)
\* line 195 without the threshold
Diverged_NoThreshold(a, b) == Abs(a - b) >= 0

\* line 195 off by one
Diverged_OffByOne(a, b) == Abs(a - b) >= CHANGE_THRESHOLD_HZ - 1

\* lines 194-195
Diverged(a, b) == Abs(a - b) >= CHANGE_THRESHOLD_HZ

\* lines 199 and 202 writing the target's own reading back to it
Correction_OwnValue(source, a, b) ==
    IF source = "wf" THEN [to |-> "sdr", freq |-> b]
    ELSE IF source = "sdr" THEN [to |-> "wf", freq |-> a]
    ELSE [to |-> "sdr", freq |-> b]

\* lines 196-206: the endpoint written to and the frequency written
Correction(source, a, b) ==
    IF source = "wf" THEN [to |-> "sdr", freq |-> a]
    ELSE IF source = "sdr" THEN [to |-> "wf", freq |-> b]
    ELSE [to |-> "sdr", freq |-> a]

SyncCall(a, b, times) ==
    IF ~IsNone(a) /\ ~IsNone(b) /\ Diverged(Val(a), Val(b))
    THEN Some(Correction(last_changed_side(times), Val(a), Val(b)))
    ELSE None

(***************************************************************************)
(* main(): the exception handlers.                                         *)
(***************************************************************************)
\* lines 173-182 without lines 175-179: the socket already opened is not closed
ConnectFailed_Leak(h1, h2) ==
    /\ open' = open
    /\ wf' = None
    /\ sdr' = None
    /\ pc' = "backoff_connect"

\* lines 173-182, up to the sleep
ConnectFailed(h1, h2) ==
    /\ open' = CloseBoth(open, h1, h2)
    /\ wf' = None
    /\ sdr' = None
    /\ pc' = "backoff_connect"

\* lines 212-220 without line 219: the sockets are closed, the variables kept
IoFailed_NotDiscarded ==
    /\ open' = CloseBoth(open, wf, sdr)
    /\ wf' = wf
    /\ sdr' = sdr
    /\ pc' = "backoff_io"

\* lines 214-219 closing and dropping only the primary's socket
IoFailed_KeepSecondary ==
    /\ open' = CloseBoth(open, wf, None)
    /\ wf' = None
    /\ sdr' = sdr
    /\ pc' = "backoff_io"

\* lines 212-220, up to the sleep
IoFailed ==
    /\ open' = CloseBoth(open, wf, sdr)
    /\ wf' = None
    /\ sdr' = None
    /\ pc' = "backoff_io"

\* lines 221-223 with the teardown of lines 214-219 in them
UnexpectedFailed_Teardown ==
    /\ open' = CloseBoth(open, wf, sdr)
    /\ wf' = None
    /\ sdr' = None
    /\ pc' = "sleep_unexpected"

\* line 221 without its handler: the exception ends main()
UnexpectedFailed_Exits ==
    /\ UNCHANGED sockVars
    /\ pc' = "done"

\* lines 221-223, up to the sleep
UnexpectedFailed ==
    /\ UNCHANGED sockVars
    /\ pc' = "sleep_unexpected"

\* What a send or a receive on a connection can raise: a timeout, reset or
\* broken pipe ("io") or another exception ("other").  On a socket that is
\* closed, or on None, the call raises at once, and not one of the three.
Failures == {"io", "other"}

CanRaise(h, kind) == IF IsOpen(h) THEN ~healthy ELSE kind = "other"

Raise(kind) == IF kind = "io" THEN IoFailed ELSE UnexpectedFailed

(***************************************************************************)
(* main(): the loop, one action per statement that can block or be         *)
(* interrupted.                                                            *)
(***************************************************************************)
\* lines 225-229 left out: main() returns with its sockets open
LoopTop_NoClose ==
    /\ pc = "top"
    /\ open' = open
    /\ pc' = IF stop THEN "done" ELSE "connect_wf"
    /\ UNCHANGED <<stop, wf, sdr, trackerVars, tickVars, envVars, ghostVars, parseVars, settled>>

\* line 166, and lines 225-230 when the flag is seen
LoopTop ==
    /\ pc = "top"
    /\ IF stop
       THEN /\ open' = CloseBoth(open, wf, sdr)
            /\ pc' = "done"
       ELSE /\ open' = open
            /\ pc' = "connect_wf"
    /\ UNCHANGED <<stop, wf, sdr, trackerVars, tickVars, envVars, ghostVars, parseVars, settled>>

\* lines 169-170, and the handler of line 173
ConnectWf ==
    /\ pc = "connect_wf"
    /\ IF IsNone(wf)
       THEN \E ok \in (IF healthy THEN {TRUE} ELSE BOOLEAN) :
                IF ok
                THEN /\ wf' = Some(NewFd(open))
                     /\ open' = open \cup {NewFd(open)}
                     /\ sdr' = sdr
                     /\ pc' = "connect_sdr"
                ELSE ConnectFailed(wf, sdr)
       ELSE /\ UNCHANGED sockVars
            /\ pc' = "connect_sdr"
    /\ UNCHANGED <<stop, trackerVars, tickVars, envVars, ghostVars, parseVars, settled>>

\* lines 171-172, and the handler of line 173
ConnectSdr ==
    /\ pc = "connect_sdr"
    /\ IF IsNone(sdr)
       THEN \E ok \in (IF healthy THEN {TRUE} ELSE BOOLEAN) :
                IF ok
                THEN /\ sdr' = Some(NewFd(open))
                     /\ open' = open \cup {NewFd(open)}
                     /\ wf' = wf
                     /\ pc' = "get_wf"
                ELSE ConnectFailed(wf, sdr)
       ELSE /\ UNCHANGED sockVars
            /\ pc' = "get_wf"
    /\ UNCHANGED <<stop, trackerVars, tickVars, envVars, ghostVars, parseVars, settled>>

\* The frequencies an endpoint may be found tuned to when it is queried.  The
\* loop sees an endpoint's tuning only in the reply to a query, so a retuning
\* from outside is taken at the query that first shows it.
Tunings(side) == IF operating THEN Freqs ELSE {rig[side]}

\* the endpoints' tuning after endpoint `to` has or has not tuned to freq
Tuned(to, freq, applied) ==
    IF applied /\ freq \in Freqs THEN [rig EXCEPT ![to] = freq] ELSE rig

\* the replies an endpoint tuned to f may give to "f"
GetReplies(f) ==
    IF healthy THEN {FreqReply(f)} ELSE {FreqReply(f)} \cup BadReplies

\* line 185: rigctl_get_freq(wf, "wfview")
GetWf ==
    /\ pc = "get_wf"
    /\ tx' = Append(tx, [to |-> "wf", line |-> GetLine])
    /\ \/ \E f \in Tunings("wf") : \E reply \in GetReplies(f) :
              /\ IsOpen(wf)
              /\ rig' = [rig EXCEPT !["wf"] = f]
              /\ wf_freq' = parse_freq_from_text(reply)
              /\ pc' = "get_sdr"
              /\ UNCHANGED sockVars
       \/ \E kind \in Failures :
              /\ CanRaise(wf, kind)
              /\ Raise(kind)
              /\ UNCHANGED <<wf_freq, rig>>
    /\ UNCHANGED <<stop, trackerVars, sdr_freq, acked, healthy, operating, ghostVars, parseVars, settled>>

\* line 186: rigctl_get_freq(sdr, "rigctl")
GetSdr ==
    /\ pc = "get_sdr"
    /\ tx' = Append(tx, [to |-> "sdr", line |-> GetLine])
    /\ \/ \E f \in Tunings("sdr") : \E reply \in GetReplies(f) :
              /\ IsOpen(sdr)
              /\ rig' = [rig EXCEPT !["sdr"] = f]
              /\ sdr_freq' = parse_freq_from_text(reply)
              /\ pc' = "update_wf"
              /\ UNCHANGED sockVars
       \/ \E kind \in Failures :
              /\ CanRaise(sdr, kind)
              /\ Raise(kind)
              /\ UNCHANGED <<sdr_freq, rig>>
    /\ UNCHANGED <<stop, trackerVars, wf_freq, acked, healthy, operating, ghostVars, parseVars, settled>>

\* line 189 without the check of line 188: tr.update("wf", None) stamps an
\* empty slot, and raises TypeError in abs() on a slot that holds a value
UpdateWf_Unchecked ==
    /\ pc = "update_wf"
    /\ IF ~IsNone(wf_freq) \/ IsNone(last["wf"])
       THEN /\ \E t \in ClockReadings :
                   /\ now' = t
                   /\ last_change_time' =
                          IF IsNone(wf_freq) THEN [last_change_time EXCEPT !["wf"] = t]
                          ELSE UpdatedTime(last_change_time, "wf", last["wf"], Val(wf_freq), t)
                   /\ last' = [last EXCEPT !["wf"] = wf_freq]
            /\ pc' = "update_sdr"
            /\ UNCHANGED sockVars
       ELSE /\ UNCHANGED trackerVars
            /\ UnexpectedFailed
    /\ UNCHANGED <<stop, tickVars, envVars, ghostVars, parseVars, settled>>

\* lines 188-189
UpdateWf ==
    /\ pc = "update_wf"
    /\ IF ~IsNone(wf_freq)
       THEN \E t \in ClockReadings :
                /\ now' = t
                /\ last_change_time' =
                       UpdatedTime(last_change_time, "wf", last["wf"], Val(wf_freq), t)
                /\ last' = UpdatedLast(last, "wf", Val(wf_freq))
       ELSE UNCHANGED trackerVars
    /\ pc' = "update_sdr"
    /\ UNCHANGED <<stop, sockVars, tickVars, envVars, ghostVars, parseVars, settled>>

\* lines 190-191
UpdateSdr ==
    /\ pc = "update_sdr"
    /\ IF ~IsNone(sdr_freq)
       THEN \E t \in ClockReadings :
                /\ now' = t
                /\ last_change_time' =
                       UpdatedTime(last_change_time, "sdr", last["sdr"], Val(sdr_freq), t)
                /\ last' = UpdatedLast(last, "sdr", Val(sdr_freq))
       ELSE UNCHANGED trackerVars
    /\ pc' = "sync"
    /\ UNCHANGED <<stop, sockVars, tickVars, envVars, ghostVars, parseVars, settled>>

\* the endpoint's handling of "F <freq>": it tunes and acknowledges (with a
\* report or by echoing the frequency), or refuses
SetOutcomes(freq) ==
    IF freq \in Freqs
    THEN {[applied |-> TRUE, reply |-> RprtOk], [applied |-> TRUE, reply |-> FreqReply(freq)]}
         \cup (IF healthy THEN {} ELSE {[applied |-> FALSE, reply |-> RprtErr]})
    ELSE {[applied |-> FALSE, reply |-> RprtErr]}

\* the count of set-frequency lines goes up to CountCap; -1 stays
CountCap == 2

Counted(n) == IF n < 0 \/ n >= CountCap THEN n ELSE n + 1

\* lines 200 and 203 treating a missing acknowledgment as an I/O failure
SetReturned_NakFatal(ok) ==
    IF ok
    THEN /\ pc' = "sleep_poll"
         /\ UNCHANGED sockVars
    ELSE IoFailed

\* lines 199-203: rigctl_set_freq has returned ok, which is only logged
SetReturned(ok) ==
    /\ pc' = "sleep_poll"
    /\ UNCHANGED sockVars

\* lines 193-208: the comparison and rigctl_set_freq
Sync ==
    /\ pc = "sync"
    /\ LET call == SyncCall(wf_freq, sdr_freq, last_change_time)
       IN  IF IsNone(call)
           THEN /\ pc' = "sleep_poll"
                /\ UNCHANGED <<sockVars, tx, acked, rig, settled>>
           ELSE LET c == Val(call)
                IN  /\ tx' = Append(tx, [to |-> c.to, line |-> SetLine(c.freq)])
                    /\ settled' = Counted(settled)
                    /\ \/ \E o \in SetOutcomes(c.freq) :
                              /\ IsOpen(Handle(c.to))
                              /\ rig' = Tuned(c.to, c.freq, o.applied)
                              /\ acked' = Some(SetAcknowledged(o.reply))
                              /\ SetReturned(SetAcknowledged(o.reply))
                       \/ \E kind \in Failures, applied \in BOOLEAN :
                              /\ CanRaise(Handle(c.to), kind)
                              /\ applied => IsOpen(Handle(c.to))
                              /\ rig' = Tuned(c.to, c.freq, applied)
                              /\ acked' = acked
                              /\ Raise(kind)
    /\ UNCHANGED <<stop, trackerVars, wf_freq, sdr_freq, healthy, operating, ghostVars, parseVars>>

\* lines 181, 210, 220 and 223: time.sleep, the end of the iteration
SleepPcs == {"sleep_poll", "backoff_connect", "backoff_io", "sleep_unexpected"}

\* the argument of each of these calls of time.sleep
SleepFor(p) ==
    CASE p = "sleep_poll" -> "poll_sec"
      [] p = "backoff_connect" -> "RECONNECT_WAIT"
      [] p = "backoff_io" -> "RECONNECT_WAIT"
      [] p = "sleep_unexpected" -> "poll_sec"

Sleep ==
    /\ pc \in SleepPcs
    /\ LET S == {last_change_time["wf"], last_change_time["sdr"], now + 1}
           times == [s \in Sides |-> Rank(last_change_time[s], S)]
       IN  /\ now' = Rank(now + 1, S)
           /\ last_change_time' = times
           /\ time0' = times
    /\ last0' = last
    /\ prevBoth' = IF pc = "backoff_connect" THEN prevBoth
                   ELSE ~IsNone(wf_freq) /\ ~IsNone(sdr_freq)
    /\ wf_freq' = None
    /\ sdr_freq' = None
    /\ tx' = <<>>
    /\ acked' = None
    /\ pc' = "top"
    /\ settled' = IF operating \/ ~healthy THEN -1 ELSE IF settled < 0 THEN 0 ELSE settled
    /\ UNCHANGED <<stop, sockVars, last, envVars, parseVars>>

(***************************************************************************)
(* The environment.                                                        *)
(***************************************************************************)
\* lines 149-152: SIGINT is delivered
sigint_handler ==
    /\ pc # "done"
    /\ ~stop
    /\ stop' = TRUE
    /\ UNCHANGED <<pc, sockVars, trackerVars, tickVars, envVars, ghostVars, parseVars, settled>>

\* from now on nobody retunes an endpoint from outside
OperatorLeaves ==
    /\ pc # "done"
    /\ operating
    /\ operating' = FALSE
    /\ UNCHANGED <<pc, stop, sockVars, trackerVars, tickVars, healthy, rig, ghostVars, parseVars, settled>>

\* the network or an endpoint starts or stops misbehaving
NetChange ==
    /\ pc # "done"
    /\ healthy' = ~healthy
    /\ settled' = -1
    /\ UNCHANGED <<pc, stop, sockVars, trackerVars, tickVars, operating, rig, ghostVars, parseVars>>

Engine ==
    \/ LoopTop
    \/ ConnectWf
    \/ ConnectSdr
    \/ GetWf
    \/ GetSdr
    \/ UpdateWf
    \/ UpdateSdr
    \/ Sync
    \/ Sleep

Next ==
    \/ Engine
    \/ sigint_handler
    \/ OperatorLeaves
    \/ NetChange

Spec == Init /\ [][Next]_vars

\* The loop's statements are executed one after the other: each blocking call
\* returns or raises within its timeout and each sleep ends.  The progress
\* properties are checked with the endpoints tuned 50 Hz apart and nobody at
\* the dials.
InitLive ==
    /\ Init
    /\ ~operating
    /\ rig = [s \in Sides |-> IF s = "wf" THEN 0 ELSE 50]

NextLive ==
    \/ Engine
    \/ sigint_handler
    \/ NetChange

LiveSpec == InitLive /\ [][NextLive]_vars /\ WF_vars(Engine)

(***************************************************************************)
(* parse_freq_from_text called on its own, on every text of up to          *)
(* MaxTextLen characters over an alphabet with digits, '.', '-', ':', a    *)
(* letter and white space, and on two replies seen in practice.  (float()  *)
(* is exact on these texts: none has more than 15 significant digits.)     *)
(***************************************************************************)
MaxTextLen == 4

Alphabet == {"0", "1", "5", ".", "-", ":", "k", " ", "\n"}

PlainReply == <<"1", "4", "2", "5", "0", "0", "0", "0", "\n">>

LabelledReply ==
    <<"f", "r", "e", "q", ":", " ", "7", "0", "7", "4", "0", "0", "0", ".", "0", " ",
      "k", "H", "z", "-", "i", "s", "h">>

ReplyTexts ==
    UNION {[1..n -> Alphabet] : n \in 0..MaxTextLen} \cup {PlainReply, LabelledReply}

ParseInit ==
    /\ InitLoop
    /\ healthy
    /\ ~operating
    /\ rig = [s \in Sides |-> 0]
    /\ text \in ReplyTexts
    /\ parsed = None

\* line 111: freq = parse_freq_from_text(txt)
ParseReply ==
    /\ parsed = None
    /\ parsed' = Some(parse_freq_from_text(text))
    /\ UNCHANGED <<pc, stop, sockVars, trackerVars, tickVars, envVars, ghostVars, text, settled>>

ParseSpec == ParseInit /\ [][ParseReply]_vars

(***************************************************************************)
(* Vocabulary of the properties.                                           *)
(***************************************************************************)
\* a polling iteration is over: its sleep, or its handler's sleep, is next
TickEnded == pc \in {"sleep_poll", "backoff_io", "sleep_unexpected"}

\* both readings were obtained in this iteration
BothRead == ~IsNone(wf_freq) /\ ~IsNone(sdr_freq)

Delta == Abs(Val(wf_freq) - Val(sdr_freq))

\* the set-frequency lines sent to a side in this iteration
SetLines(side) == SelectSeq(tx, LAMBDA m : m.to = side /\ Head(m.line) = "F")

\* the argument of a set-frequency line, read back from its text
SetArg(line) == IntOf(SubSeq(line, 3, Len(line)))

\* the tracker had no value and no timestamp when this iteration began
FreshAtStart ==
    \A s \in Sides : IsNone(last0[s]) /\ time0[s] = 0

(***************************************************************************)
(* C1: in an iteration that obtained both readings with                    *)
(* |primary - secondary| < threshold, no set-frequency line is sent to     *)
(* either endpoint, whatever the tracker holds.                            *)
(***************************************************************************)
C1_NoWriteWhenInSync ==
    (TickEnded /\ BothRead /\ Delta < CHANGE_THRESHOLD_HZ)
        => \A s \in Sides : SetLines(s) = <<>>

C1_Witness ==
    /\ pc = "sleep_poll"
    /\ BothRead
    /\ Delta = CHANGE_THRESHOLD_HZ - 1
    /\ last_changed_side(last_change_time) = "sdr"
    /\ last_change_time["wf"] # 0
    /\ \A s \in Sides : SetLines(s) = <<>>

(***************************************************************************)
(* C2: in an iteration that obtained both readings with                    *)
(* |primary - secondary| >= threshold and in which the tracker names a     *)
(* most-recently-changed side S, exactly one set-frequency line is sent;   *)
(* it goes to the other side and carries S's reading of this iteration.    *)
(***************************************************************************)
ReadingOf(side) == IF side = "wf" THEN Val(wf_freq) ELSE Val(sdr_freq)

C2_WriteToOtherSide ==
    \A S \in Sides :
        (/\ TickEnded
         /\ BothRead
         /\ Delta >= CHANGE_THRESHOLD_HZ
         /\ last_changed_side(last_change_time) = S)
            => /\ SetLines(S) = <<>>
               /\ Len(SetLines(Other(S))) = 1
               /\ SetLines(Other(S))[1].line = SetLine(ReadingOf(S))
               /\ SetArg(SetLines(Other(S))[1].line) = ReadingOf(S)

C2_Witness ==
    /\ pc = "sleep_poll"
    /\ BothRead
    /\ Delta = CHANGE_THRESHOLD_HZ
    /\ last_changed_side(last_change_time) = "sdr"
    /\ SetLines("sdr") = <<>>
    /\ Len(SetLines("wf")) = 1
    /\ SetArg(SetLines("wf")[1].line) = Val(sdr_freq)

(***************************************************************************)
(* C3: starting from a fresh tracker, the first iteration that obtains     *)
(* both readings with a difference of at least the threshold writes the    *)
(* primary's reading to the secondary and nothing to the primary, for      *)
(* every pair of clock readings taken in that iteration.  (Stated for      *)
(* readings that are frequencies, that is, not negative.)                  *)
(***************************************************************************)
C3_FreshTrackerPrimaryWins ==
    (/\ TickEnded
     /\ BothRead
     /\ Val(wf_freq) >= 0
     /\ Val(sdr_freq) >= 0
     /\ Delta >= CHANGE_THRESHOLD_HZ
     /\ FreshAtStart)
        => /\ SetLines("wf") = <<>>
           /\ Len(SetLines("sdr")) = 1
           /\ SetArg(SetLines("sdr")[1].line) = Val(wf_freq)

(***************************************************************************)
(* C4: if one iteration reads the same value v on both sides and the next  *)
(* polling iteration reads v on the primary and w on the secondary with    *)
(* |w - v| >= threshold, that next iteration sends "F w" to the primary    *)
(* and no set-frequency line to the secondary.                             *)
(***************************************************************************)
C4_SecondaryJumpPushedToPrimary ==
    (/\ TickEnded
     /\ BothRead
     /\ prevBoth
     /\ last0["wf"] = last0["sdr"]
     /\ wf_freq = last0["wf"]
     /\ Delta >= CHANGE_THRESHOLD_HZ)
        => /\ SetLines("sdr") = <<>>
           /\ Len(SetLines("wf")) = 1
           /\ SetLines("wf")[1].line = SetLine(Val(sdr_freq))

C4_Witness ==
    /\ pc = "sleep_poll"
    /\ prevBoth
    /\ last0["wf"] = Some(0)
    /\ last0["sdr"] = Some(0)
    /\ wf_freq = Some(0)
    /\ sdr_freq = Some(CHANGE_THRESHOLD_HZ)
    /\ SetLines("sdr") = <<>>
    /\ Len(SetLines("wf")) = 1
    /\ SetLines("wf")[1].line = <<"F", " ", "5", "0">>

(***************************************************************************)
(* C5: a timeout, reset or broken pipe in a polling iteration (in a get    *)
(* or in the correcting set) closes and discards both sockets; until the   *)
(* backoff sleep is over nothing is sent and nothing is connected; after   *)
(* it the loop (unless it sees the stop flag) connects the primary and     *)
(* then the secondary anew.                                                *)
(***************************************************************************)
C5_IoFailureDropsBoth ==
    /\ [](pc = "backoff_io" => IsNone(wf) /\ IsNone(sdr) /\ open = {})
    /\ [][pc = "backoff_io"
            => /\ pc' \in {"backoff_io", "top"}
               /\ UNCHANGED sockVars
               /\ Len(tx') <= Len(tx)]_vars
    /\ [][(pc = "top" /\ IsNone(wf) /\ IsNone(sdr) /\ pc' # pc)
            => \/ stop /\ pc' = "done"
               \/ pc' = "connect_wf" /\ UNCHANGED sockVars /\ tx' = tx]_vars
    /\ [][(pc = "connect_wf" /\ IsNone(wf) /\ IsNone(sdr) /\ pc' # pc)
            => \/ pc' = "backoff_connect" /\ open' = {}
               \/ /\ pc' = "connect_sdr"
                  /\ IsOpen(wf)' /\ IsNone(sdr') /\ tx' = tx]_vars
    /\ [][(pc = "connect_sdr" /\ IsNone(sdr) /\ pc' # pc)
            => \/ pc' = "backoff_connect" /\ open' = {}
               \/ /\ pc' = "get_wf"
                  /\ IsOpen(wf)' /\ IsOpen(sdr)' /\ wf' # sdr' /\ tx' = tx]_vars

C5_Witness ==
    /\ pc = "backoff_io"
    /\ Len(SetLines("wf")) = 1
    /\ IsNone(wf)
    /\ IsNone(sdr)
    /\ open = {}

(***************************************************************************)
(* C7: Tracker.update(side, value) sets the side's last-change time to     *)
(* the current time exactly when the slot was empty or                     *)
(* |value - previous| >= threshold (a difference equal to the threshold    *)
(* is a change, one of threshold - 1 is not) and leaves it alone           *)
(* otherwise; it stores the value in both cases and leaves the other       *)
(* side's slot alone.                                                      *)
(***************************************************************************)
IsChange(old, value) == IsNone(old) \/ Abs(value - Val(old)) >= CHANGE_THRESHOLD_HZ

RecordedAs(side, value) ==
    /\ IF IsChange(last[side], value)
       THEN last_change_time'[side] = now'
       ELSE last_change_time'[side] = last_change_time[side] /\ last_change_time[side] # now'
    /\ last'[side] = Some(value)
    /\ last'[Other(side)] = last[Other(side)]
    /\ last_change_time'[Other(side)] = last_change_time[Other(side)]

C7_TrackerRecord ==
    /\ [][(pc = "update_wf" /\ pc' # pc /\ ~IsNone(wf_freq))
            => RecordedAs("wf", Val(wf_freq))]_vars
    /\ [][(pc = "update_sdr" /\ pc' # pc /\ ~IsNone(sdr_freq))
            => RecordedAs("sdr", Val(sdr_freq))]_vars

\* the primary moved by exactly the threshold (a change), the secondary by one less
C7_Witness ==
    /\ pc = "sync"
    /\ last0["wf"] = Some(0)
    /\ wf_freq = Some(CHANGE_THRESHOLD_HZ)
    /\ last["wf"] = wf_freq
    /\ last_change_time["wf"] > time0["wf"]
    /\ last0["sdr"] = Some(0)
    /\ sdr_freq = Some(CHANGE_THRESHOLD_HZ - 1)
    /\ last["sdr"] = sdr_freq
    /\ last_change_time["sdr"] = time0["sdr"]
    /\ time0["sdr"] # 0

(***************************************************************************)
(* C9: main() leaves its loop only when the stop flag is set; whatever     *)
(* fails, while the flag is unset the loop has a next statement to execute *)
(* and each statement moves it on towards the end of the iteration and     *)
(* back to the loop top.                                                   *)
(***************************************************************************)
Stage(p) ==
    CASE p = "top" -> 0
      [] p = "connect_wf" -> 1
      [] p = "connect_sdr" -> 2
      [] p = "get_wf" -> 3
      [] p = "get_sdr" -> 4
      [] p = "update_wf" -> 5
      [] p = "update_sdr" -> 6
      [] p = "sync" -> 7
      [] p \in SleepPcs -> 8
      [] p = "done" -> 9

C9_OnlyStopEndsLoop ==
    /\ [](pc = "done" => stop)
    /\ [](~stop => ENABLED Engine)
    /\ [][pc' # pc => (pc' = "top" /\ pc \in SleepPcs) \/ Stage(pc') > Stage(pc)]_vars

\* an unexpected error was raised by the correcting set, and the loop goes on
C9_Witness ==
    /\ pc = "sleep_unexpected"
    /\ ~stop
    /\ Len(SetLines("sdr")) = 1
    /\ IsOpen(wf)
    /\ IsOpen(sdr)
    /\ ENABLED Engine

(***************************************************************************)
(* C10: every frequency stored in the tracker and every argument of a      *)
(* set-frequency line sent is a non-negative integer, whatever the         *)
(* endpoints reply to a get.                                               *)
(***************************************************************************)
C10_FrequenciesNonNegative ==
    /\ \A s \in Sides : IsNone(last[s]) \/ Val(last[s]) >= 0
    /\ \A s \in Sides : \A i \in 1..Len(SetLines(s)) : SetArg(SetLines(s)[i].line) >= 0

(***************************************************************************)
(* C6: after an I/O failure in a polling iteration, if the stop flag is    *)
(* never set and from some point on both endpoints accept connections and  *)
(* answer, the loop comes to the end of a polling iteration with both      *)
(* sockets open again.                                                     *)
(***************************************************************************)
C6_ReconnectsAndPolls ==
    (<>[]healthy /\ []~stop)
        => [](pc = "backoff_io"
                => <>(pc = "sleep_poll" /\ IsOpen(wf) /\ IsOpen(sdr) /\ Len(tx) >= 2))

\* the correcting set to the primary failed; the endpoints have recovered
C6_Witness ==
    /\ pc = "backoff_io"
    /\ Len(SetLines("wf")) = 1
    /\ healthy
    /\ ~stop
    /\ IsNone(wf)
    /\ IsNone(sdr)

(***************************************************************************)
(* C8: once the stop flag is set, main() reaches its end; the loop-top     *)
(* check that sees the flag is followed by no connect, get or set; at the  *)
(* end every socket that was open is closed; the flag is never cleared.    *)
(***************************************************************************)
C8_Shutdown ==
    /\ stop ~> (pc = "done")
    /\ [](pc = "done" => open = {})
    /\ [][stop => stop']_vars
    /\ [][(pc = "top" /\ stop /\ pc' # pc)
            => pc' = "done" /\ tx' = tx /\ open' = {} /\ UNCHANGED <<wf, sdr>>]_vars
    /\ [][pc = "done" => UNCHANGED <<pc, tx, open>>]_vars

\* main() has ended, and the two sockets it held are closed
C8_Witness ==
    /\ pc = "done"
    /\ stop
    /\ ~IsNone(wf)
    /\ ~IsNone(sdr)
    /\ wf # sdr
    /\ open = {}

(***************************************************************************)
(* What a reply says, read off the text without the parser's steps.  A     *)
(* token is a maximal run of characters that are neither white space nor   *)
(* ':'; its numeral is what is left of it when every character other than  *)
(* a digit, '.' and '-' is taken out.                                      *)
(***************************************************************************)
IsSeparator(ch) == ch \in {" ", "\n", "\t", "\r", ":"}

IsToken(t, i, j) ==
    /\ i <= j
    /\ \A k \in i..j : ~IsSeparator(t[k])
    /\ i = 1 \/ IsSeparator(t[i - 1])
    /\ j = Len(t) \/ IsSeparator(t[j + 1])

NumeralOf(t, i, j) ==
    SelectSeq(SubSeq(t, i, j), LAMBDA ch : ch \in DigitChars \cup {".", "-"})

\* the numeral without its sign, if it has one
Magnitude(c) == IF c # <<>> /\ c[1] = "-" THEN SubSeq(c, 2, Len(c)) ELSE c

\* an integer or a decimal: an optional '-', then digits with at most one '.'
IsNumber(c) ==
    LET m == Magnitude(c)
    IN  /\ \A i \in 1..Len(m) : m[i] \in DigitChars \cup {"."}
        /\ \E i \in 1..Len(m) : m[i] \in DigitChars
        /\ \A i, j \in 1..Len(m) : (m[i] = "." /\ m[j] = ".") => i = j

RECURSIVE Pow10(_)
Pow10(k) == IF k = 0 THEN 1 ELSE 10 * Pow10(k - 1)

\* the number of digits after the '.'
Scale(m) ==
    IF \E i \in 1..Len(m) : m[i] = "."
    THEN Len(m) - (CHOOSE i \in 1..Len(m) : m[i] = ".")
    ELSE 0

\* the digits of m read as one integer: the number is Scaled(m) / 10^Scale(m)
RECURSIVE ScaledFrom(_, _, _)
ScaledFrom(m, i, acc) ==
    IF i > Len(m) THEN acc
    ELSE ScaledFrom(m, i + 1, IF m[i] = "." THEN acc ELSE 10 * acc + DigitVal(m[i]))

Scaled(m) == ScaledFrom(m, 1, 0)

\* r is the number c, or an integer nearest to it
IsNearest(r, c) ==
    LET m == Magnitude(c)
        x == (IF m = c THEN 1 ELSE -1) * Scaled(m)
    IN  2 * Abs(r * Pow10(Scale(m)) - x) <= Pow10(Scale(m))

\* the tokens of the text whose numeral is a number
NumberTokens(t) ==
    {p \in (1..Len(t)) \X (1..Len(t)) :
        IsToken(t, p[1], p[2]) /\ IsNumber(NumeralOf(t, p[1], p[2]))}

FirstNumberToken(t) ==
    CHOOSE p \in NumberTokens(t) : \A q \in NumberTokens(t) : p[1] <= q[1]

(***************************************************************************)
(* C11: for every reply text over the alphabet, parse_freq_from_text       *)
(* returns the number of the first token (delimited by white space or      *)
(* ':') whose numeral parses as an integer, or as a decimal, which is      *)
(* rounded to the nearest integer; tokens with an empty numeral or one     *)
(* that does not parse are skipped; the result is None exactly when no     *)
(* token parses.  "14250000\n" gives 14250000 and                          *)
(* "freq: 7074000.0 kHz-ish" gives 7074000.                                *)
(***************************************************************************)
C11_ParsesFirstNumber ==
    ~IsNone(parsed) =>
        LET result == Val(parsed)
        IN  /\ IsNone(result) <=> NumberTokens(text) = {}
            /\ ~IsNone(result) =>
                   LET p == FirstNumberToken(text)
                   IN  IsNearest(Val(result), NumeralOf(text, p[1], p[2]))
            /\ text = PlainReply => result = Some(14250000)
            /\ text = LabelledReply => result = Some(7074000)

\* the token "-" does not parse and is passed over; the decimal after it lies
\* halfway between 0 and 1 and is rounded to the even one
C11_Witness ==
    /\ text = <<"-", ":", ".", "5">>
    /\ parsed = Some(Some(0))

(***************************************************************************)
(* First samples.                                                          *)
(***************************************************************************)
\* the side's slot was empty when this iteration began and has a value now
FirstSampleOf(side) == IsNone(last0[side]) /\ ~IsNone(last[side])

\* the side's timestamp was set in this iteration
StampedNow(side) ==
    /\ last_change_time[side] # 0
    /\ \A s \in Sides : last_change_time[side] > time0[s]

\* the set-frequency lines of this iteration, to either side
NoSetLine == \A s \in Sides : SetLines(s) = <<>>

OneSetLine == Len(SetLines("wf")) + Len(SetLines("sdr")) = 1

(***************************************************************************)
(* C12 as stated: the iteration in which a side's first sample is          *)
(* recorded sets that side's timestamp and sends no set-frequency line to  *)
(* either endpoint.                                                        *)
(***************************************************************************)
C12_FirstSampleNoWrite ==
    \A s \in Sides :
        FirstSampleOf(s) => StampedNow(s) /\ NoSetLine

(***************************************************************************)
(* C12 amended: the iteration in which a side's first sample is recorded   *)
(* sets that side's timestamp; by its end it has sent one set-frequency    *)
(* line if it obtained both readings and they differ by at least the       *)
(* threshold, and none otherwise.                                          *)
(***************************************************************************)
C12_FirstSampleStamped ==
    \A s \in Sides :
        FirstSampleOf(s)
            => /\ StampedNow(s)
               /\ TickEnded =>
                      IF BothRead /\ Delta >= CHANGE_THRESHOLD_HZ
                      THEN OneSetLine
                      ELSE NoSetLine

\* both first samples in one iteration, 50 Hz apart: a line is sent
C12_Witness ==
    /\ pc = "sleep_poll"
    /\ FirstSampleOf("wf")
    /\ FirstSampleOf("sdr")
    /\ wf_freq = Some(0)
    /\ sdr_freq = Some(CHANGE_THRESHOLD_HZ)
    /\ StampedNow("wf")
    /\ StampedNow("sdr")
    /\ OneSetLine

(***************************************************************************)
(* Readings and their recording.                                           *)
(***************************************************************************)
\* this iteration's reading of a side, if one was obtained
OptReading(side) == IF side = "wf" THEN wf_freq ELSE sdr_freq

AllRecorded ==
    \A s \in Sides : ~IsNone(OptReading(s)) => last[s] = OptReading(s)

\* both calls of rigctl_get_freq have returned in this iteration: main() is
\* past line 186, or it failed in the set-frequency call
QueriesReturned ==
    \/ pc \in {"update_wf", "update_sdr", "sync", "sleep_poll"}
    \/ TickEnded /\ ~NoSetLine

(***************************************************************************)
(* C13 as stated: in every polling iteration each reading that was         *)
(* obtained is in the tracker when the iteration ends, also when a later   *)
(* step of the iteration failed.                                           *)
(***************************************************************************)
C13_ReadingsRecorded == TickEnded => AllRecorded

(***************************************************************************)
(* C13 amended: in every polling iteration in which both queries return,   *)
(* each reading that was obtained is recorded in the tracker, also when    *)
(* the set-frequency call of that iteration then fails; in an iteration    *)
(* in which a query fails nothing is recorded, not even a reading the      *)
(* other query obtained.                                                   *)
(***************************************************************************)
C13_RecordedWhenQueriesReturn ==
    /\ (QueriesReturned /\ (pc = "sync" \/ TickEnded)) => AllRecorded
    /\ (TickEnded /\ ~QueriesReturned)
           => last = last0 /\ last_change_time = time0

\* both readings are new and recorded, and the set-frequency call then failed
C13_Witness ==
    /\ pc = "backoff_io"
    /\ OneSetLine
    /\ BothRead
    /\ last["wf"] = wf_freq
    /\ last["sdr"] = sdr_freq
    /\ last0["wf"] # wf_freq
    /\ last0["sdr"] # sdr_freq

(***************************************************************************)
(* Connections.                                                            *)
(***************************************************************************)
\* main() holds two different open sockets, and no other socket is open
BothOpen ==
    /\ IsOpen(wf)
    /\ IsOpen(sdr)
    /\ wf # sdr
    /\ open = {Val(wf), Val(sdr)}

\* main() holds no socket, and no socket is open
BothAbsent == IsNone(wf) /\ IsNone(sdr) /\ open = {}

(***************************************************************************)
(* C14: no partial connection is retained.  At every loop-top check the    *)
(* two handles are both open or both absent; a query is issued only with   *)
(* both open; when a connect fails, a socket opened in the same attempt    *)
(* is closed and both handles are discarded before the backoff sleep,      *)
(* which opens nothing; and an attempt that goes on to the queries has     *)
(* both sockets open.                                                      *)
(***************************************************************************)
C14_NoPartialConnection ==
    /\ [](pc = "top" => BothOpen \/ BothAbsent)
    /\ [](pc \in {"get_wf", "get_sdr"} => BothOpen)
    /\ [](pc = "backoff_connect" => BothAbsent)
    /\ [][(pc \in {"connect_wf", "connect_sdr"} /\ pc' = "backoff_connect")
            => BothAbsent']_vars
    /\ [][pc = "backoff_connect"
            => pc' \in {"backoff_connect", "top"} /\ UNCHANGED sockVars]_vars
    /\ [][(pc = "connect_sdr" /\ pc' # pc /\ pc' # "backoff_connect")
            => pc' = "get_wf" /\ BothOpen']_vars

\* the primary is connected, the secondary is not yet, and its endpoint is
\* not accepting connections
C14_Witness ==
    /\ pc = "connect_sdr"
    /\ IsOpen(wf)
    /\ IsNone(sdr)
    /\ open = {Val(wf)}
    /\ ~healthy
    /\ ~stop

\* with both sockets open (and the stop flag unset) the loop goes from its top
\* to the first query without touching a socket
SameHandlesStep ==
    (BothOpen /\ pc' # pc)
        => /\ (pc = "top" /\ ~stop) => pc' = "connect_wf" /\ UNCHANGED sockVars
           /\ pc = "connect_wf" => pc' = "connect_sdr" /\ UNCHANGED sockVars
           /\ pc = "connect_sdr" => pc' = "get_wf" /\ UNCHANGED sockVars

(***************************************************************************)
(* C15: when both queries return and the reply of exactly one side does    *)
(* not parse, the iteration is not aborted: that side's slot (value and    *)
(* timestamp) stays as it was, the other side's reading is recorded, no    *)
(* set-frequency line is sent, both sockets stay open, and the loop goes   *)
(* on to the poll sleep and from there to the next iteration's queries on  *)
(* the same sockets.                                                       *)
(***************************************************************************)
OnlyMissing(side) ==
    /\ pc \in {"update_wf", "update_sdr", "sync", "sleep_poll"}
    /\ IsNone(OptReading(side))
    /\ ~IsNone(OptReading(Other(side)))

C15_OneReplyUnparsed ==
    /\ [](\A s \in Sides :
            OnlyMissing(s)
                => /\ last[s] = last0[s]
                   /\ last_change_time[s] = time0[s]
                   /\ pc \in {"sync", "sleep_poll"}
                          => last[Other(s)] = OptReading(Other(s))
                   /\ NoSetLine
                   /\ BothOpen)
    /\ [][\A s \in Sides :
            (OnlyMissing(s) /\ pc' # pc)
                => /\ UNCHANGED sockVars
                   /\ pc = "update_wf" => pc' = "update_sdr"
                   /\ pc = "update_sdr" => pc' = "sync"
                   /\ pc = "sync" => pc' = "sleep_poll"
                   /\ pc = "sleep_poll" => pc' = "top"]_vars
    /\ [][SameHandlesStep]_vars

\* the secondary's reply did not parse; the primary's reading, a change by
\* the threshold, is recorded and stamped
C15_Witness ==
    /\ pc = "sleep_poll"
    /\ OnlyMissing("sdr")
    /\ last0["wf"] = Some(0)
    /\ wf_freq = Some(CHANGE_THRESHOLD_HZ)
    /\ last["wf"] = wf_freq
    /\ StampedNow("wf")
    /\ ~IsNone(last["sdr"])
    /\ last["sdr"] = last0["sdr"]
    /\ last_change_time["sdr"] = time0["sdr"]
    /\ NoSetLine
    /\ BothOpen

(***************************************************************************)
(* C16: a set-frequency call whose reply is not an acknowledgment is not   *)
(* fatal and is not repeated in the iteration: at most one set-frequency   *)
(* line is sent per iteration; the refusal closes no socket and changes    *)
(* nothing in the tracker; the loop goes on to the poll sleep and the      *)
(* next iteration, which starts with a query to each side again.           *)
(***************************************************************************)
Refused == acked = Some(FALSE)

C16_RefusalNotFatal ==
    /\ [](Len(SetLines("wf")) + Len(SetLines("sdr")) <= 1)
    /\ [](Refused => pc = "sleep_poll" /\ BothOpen /\ OneSetLine)
    /\ [][(pc = "sync" /\ Refused')
            => /\ pc' = "sleep_poll"
               /\ UNCHANGED <<sockVars, last, last_change_time>>]_vars
    /\ [][(Refused /\ pc' # pc)
            => pc' = "top" /\ tx' = <<>> /\ UNCHANGED <<sockVars, last>>]_vars
    /\ [][SameHandlesStep]_vars
    /\ [](pc \in {"update_wf", "update_sdr", "sync", "sleep_poll"}
            => /\ Len(tx) >= 2
               /\ tx[1] = [to |-> "wf", line |-> GetLine]
               /\ tx[2] = [to |-> "sdr", line |-> GetLine])

\* the secondary has refused the primary's frequency
C16_Witness ==
    /\ pc = "sleep_poll"
    /\ Refused
    /\ Len(SetLines("sdr")) = 1
    /\ SetLines("sdr")[1].line = SetLine(Val(wf_freq))
    /\ Val(wf_freq) \in Freqs
    /\ rig["sdr"] # Val(wf_freq)
    /\ BothOpen
    /\ AllRecorded

(***************************************************************************)
(* C17: a failure in a query or in the set-frequency call that is not a    *)
(* timeout, reset or broken pipe leaves both sockets open and unchanged    *)
(* and does not end the loop: a statement of lines 185-208 is left for     *)
(* the next statement or for one of the two handlers, never for the end    *)
(* of main(); the handler sleeps once, for the poll interval and not for   *)
(* the reconnect wait, and the loop then goes round to the queries on the  *)
(* same two sockets.                                                       *)
(***************************************************************************)
C17_UnexpectedFailureKeepsHandles ==
    /\ [](pc = "sleep_unexpected" => BothOpen /\ SleepFor(pc) = "poll_sec")
    /\ [][(pc \in {"get_wf", "get_sdr", "sync"} /\ pc' # pc)
            => \/ Stage(pc') = Stage(pc) + 1 /\ pc' \notin SleepPcs \ {"sleep_poll"}
               \/ pc' = "backoff_io"
               \/ pc' = "sleep_unexpected" /\ UNCHANGED sockVars]_vars
    /\ [][(pc = "sleep_unexpected" /\ pc' # pc)
            => pc' = "top" /\ tx' = <<>> /\ UNCHANGED sockVars]_vars
    /\ [][SameHandlesStep]_vars

\* the secondary's query has failed in another way than the three
C17_Witness ==
    /\ pc = "sleep_unexpected"
    /\ Len(tx) = 2
    /\ ~IsNone(wf_freq)
    /\ IsNone(sdr_freq)
    /\ BothOpen
    /\ ~stop

(***************************************************************************)
(* C18: convergence without ping-pong.  Take an iteration T from whose     *)
(* start on the endpoints are healthy (connections stay up, every reply    *)
(* parses, every set-frequency line is applied and acknowledged) and       *)
(* nobody retunes an endpoint from outside.  From T on at most one         *)
(* set-frequency line is sent; every iteration after the one that sent it  *)
(* reads two frequencies less than the threshold apart; and the endpoints  *)
(* then are less than the threshold apart and stay so.  (settled counts    *)
(* the lines sent since T.)                                                *)
(***************************************************************************)
C18_ConvergesWithoutPingPong ==
    /\ settled <= 1
    /\ settled >= 0 => healthy /\ ~operating
    /\ (settled >= 0 /\ pc \in {"update_wf", "update_sdr", "sync", "sleep_poll"})
           => BothRead
    /\ (settled = 1 /\ BothRead /\ NoSetLine) => Delta < CHANGE_THRESHOLD_HZ
    /\ (settled = 1 /\ (TickEnded \/ NoSetLine))
           => Abs(rig["wf"] - rig["sdr"]) < CHANGE_THRESHOLD_HZ

\* the iteration after the one that sent the line: the tracker remembers two
\* values 50 Hz apart, the readings agree, nothing is sent
C18_Witness ==
    /\ settled = 1
    /\ pc = "sleep_poll"
    /\ BothRead
    /\ ~IsNone(last0["wf"])
    /\ ~IsNone(last0["sdr"])
    /\ Abs(Val(last0["wf"]) - Val(last0["sdr"])) >= CHANGE_THRESHOLD_HZ
    /\ Delta = 0
    /\ NoSetLine

(***************************************************************************)
(* C19: whenever last_changed_side() is asked (both readings obtained in   *)
(* the iteration, 50 Hz or more apart), both sides' timestamps have been   *)
(* set, in this iteration or an earlier one; so the answer is a side,      *)
(* never None, and the tie-break branch of lines 203-206 is not executed.  *)
(***************************************************************************)
C19_TieBreakNeverTaken ==
    ((pc = "sync" \/ TickEnded) /\ BothRead /\ Delta >= CHANGE_THRESHOLD_HZ)
        => /\ \A s \in Sides : last_change_time[s] # 0 /\ ~IsNone(last[s])
           /\ last_changed_side(last_change_time) \in Sides

\* the first iteration of all: both timestamps were set just before the question
C19_Witness ==
    /\ pc = "sync"
    /\ FreshAtStart
    /\ BothRead
    /\ Delta >= CHANGE_THRESHOLD_HZ
    /\ StampedNow("wf")
    /\ StampedNow("sdr")
    /\ last_changed_side(last_change_time) = "sdr"

(***************************************************************************)
(* C20: sub-threshold drift is overwritten.  In an iteration in which      *)
(* side X reads what it read last and side Y reads less than the           *)
(* threshold away from what it read last, no timestamp changes; so while   *)
(* Y drifts in such steps and X stays, X keeps the strictly later          *)
(* timestamp it had, and in the first iteration in which the two readings  *)
(* are the threshold or more apart one set-frequency line is sent, to Y,   *)
(* with X's reading.                                                       *)
(***************************************************************************)
DriftStep(X, Y) ==
    /\ BothRead
    /\ ~IsNone(last0[X])
    /\ ~IsNone(last0[Y])
    /\ OptReading(X) = last0[X]
    /\ Abs(Val(OptReading(Y)) - Val(last0[Y])) < CHANGE_THRESHOLD_HZ

C20_DriftOverwritten ==
    \A X \in Sides :
        LET Y == Other(X)
        IN  (DriftStep(X, Y) /\ (pc = "sync" \/ TickEnded))
                => /\ last_change_time = time0
                   /\ (TickEnded /\ time0[X] > time0[Y] /\ Delta >= CHANGE_THRESHOLD_HZ)
                          => /\ SetLines(X) = <<>>
                             /\ Len(SetLines(Y)) = 1
                             /\ SetLines(Y)[1].line = SetLine(Val(OptReading(X)))

\* the secondary has drifted from 0 to 49 and now to 50 Hz, the primary has
\* stayed at 0 Hz and has the later timestamp: "F 0" goes to the secondary
C20_Witness ==
    /\ pc = "sleep_poll"
    /\ time0["wf"] > time0["sdr"]
    /\ last0["wf"] = Some(0)
    /\ wf_freq = Some(0)
    /\ last0["sdr"] = Some(CHANGE_THRESHOLD_HZ - 1)
    /\ sdr_freq = Some(CHANGE_THRESHOLD_HZ)
    /\ last_change_time = time0
    /\ SetLines("wf") = <<>>
    /\ prevBoth
    /\ Len(SetLines("sdr")) = 1
    /\ SetLines("sdr")[1].line = <<"F", " ", "0">>

====
